---------------------------- MODULE Spec2Model ----------------------------
(***************************************************************************)
(* Model of the Mercari search tool (server.py) and of its smoke-test      *)
(* client (check_server.py).                                               *)
(*                                                                         *)
(* Text is a sequence of one-character strings, so that lower(), split()   *)
(* and the substring test `a in b` are computed the way Python computes    *)
(* them.  Python values that may have any type (the attributes of an item  *)
(* returned by mercari.search) are records tagged with their type.         *)
(***************************************************************************)
EXTENDS Integers, Sequences, FiniteSets, TLC

(***************************************************************************)
(* Bounds of the model.                                                    *)
(***************************************************************************)
MaxItems == 3        \* longest list mercari.search returns
MaxLimit == 2        \* largest `limit` of a request

(***************************************************************************)
(* Python values.                                                          *)
(***************************************************************************)
None == [t |-> "NoneType"]
PyInt(n) == [t |-> "int", v |-> n]
PyStr(s) == [t |-> "str", s |-> s]

Range(f) == {f[i] : i \in DOMAIN f}

(***************************************************************************)
(* str.lower(): the cased characters of the model's alphabet.              *)
(***************************************************************************)
UpperChars == <<"A", "C", "E", "M", "O", "P", "R", "S", "X">>
LowerChars == <<"a", "c", "e", "m", "o", "p", "r", "s", "x">>

LowerChar(c) ==
  IF \E i \in DOMAIN UpperChars : UpperChars[i] = c
    THEN LowerChars[CHOOSE i \in DOMAIN UpperChars : UpperChars[i] = c]
    ELSE c

Lower(s) == [i \in DOMAIN s |-> LowerChar(s[i])]

(***************************************************************************)
(* str.split() with no argument: the maximal runs of non-blank characters. *)
(***************************************************************************)
RECURSIVE SplitFrom(_, _, _)
SplitFrom(s, i, word) ==
  IF i > Len(s)
    THEN IF word = <<>> THEN <<>> ELSE <<word>>
    ELSE IF s[i] = " "
      THEN IF word = <<>>
        THEN SplitFrom(s, i + 1, <<>>)
        ELSE <<word>> \o SplitFrom(s, i + 1, <<>>)
      ELSE SplitFrom(s, i + 1, Append(word, s[i]))

Split(s) == SplitFrom(s, 1, <<>>)

(***************************************************************************)
(* `term in text` on two strings: substring containment.                   *)
(***************************************************************************)
\* Mutant: the term must be a whole word of the text.
StrInWord(term, text) == \E i \in DOMAIN Split(text) : Split(text)[i] = term

StrIn(term, text) ==
  \E i \in 0..(Len(text) - Len(term)) :
    \A j \in 1..Len(term) : text[i + j] = term[j]

(***************************************************************************)
(* float(price).  A string converts when it is a non-empty run of decimal  *)
(* digits (the only numeric strings the model feeds it) and raises         *)
(* ValueError otherwise; a value of another type raises TypeError.         *)
(***************************************************************************)
Digits == <<"0", "1", "2", "3", "4", "5", "6", "7", "8", "9">>
IsDigit(c) == \E d \in DOMAIN Digits : Digits[d] = c
DigitVal(c) == (CHOOSE d \in DOMAIN Digits : Digits[d] = c) - 1

RECURSIVE ParseDigits(_, _)
ParseDigits(s, acc) ==
  IF s = <<>> THEN acc
  ELSE ParseDigits(Tail(s), 10 * acc + DigitVal(Head(s)))

\* Mutant: a string that is no number converts to 0.
FloatLenient(p) ==
  CASE p.t = "int" -> [ok |-> TRUE, v |-> p.v]
    [] p.t = "str" ->
         IF p.s # <<>> /\ \A i \in DOMAIN p.s : IsDigit(p.s[i])
           THEN [ok |-> TRUE, v |-> ParseDigits(p.s, 0)]
           ELSE [ok |-> TRUE, v |-> 0]
    [] OTHER -> [ok |-> FALSE, err |-> "TypeError"]

Float(p) ==
  CASE p.t = "int" -> [ok |-> TRUE, v |-> p.v]
    [] p.t = "str" ->
         IF p.s # <<>> /\ \A i \in DOMAIN p.s : IsDigit(p.s[i])
           THEN [ok |-> TRUE, v |-> ParseDigits(p.s, 0)]
           ELSE [ok |-> FALSE, err |-> "ValueError"]
    [] OTHER -> [ok |-> FALSE, err |-> "TypeError"]

(***************************************************************************)
(* Filtering setup of search_mercari_items_filtered.                       *)
(***************************************************************************)
base_unwanted_terms ==
  << <<"m", "a", "x">>, <<"p", "l", "u", "s">>, <<"1", "1">>, <<"1", "2">>,
     <<"1", "3">>, <<"1", "4">>, <<"1", "6">>, <<"ジ", "ャ", "ン", "ク">> >>

LowerAll(terms) == [i \in DOMAIN terms |-> Lower(terms[i])]

RequiredTerms(kw) == LowerAll(Split(kw))

UnwantedFromInput(excl) == LowerAll(Split(excl))

\* Mutant: the required terms are not taken out.
AllUnwantedTermsKept(kw, excl) ==
  Range(base_unwanted_terms) \cup Range(UnwantedFromInput(excl))

\* list(set(base + input)) filtered by `term not in required_terms`; only
\* membership is ever asked of the list, so it is kept as a set.
AllUnwantedTerms(kw, excl) ==
  { term \in Range(base_unwanted_terms) \cup Range(UnwantedFromInput(excl)) :
      term \notin Range(RequiredTerms(kw)) }


(***************************************************************************)
(* The per-item tests of the filter loop.                                  *)
(***************************************************************************)
Missing == [t |-> "missing"]     \* the item has no such attribute

Getattr(item, attr, default) ==
  IF item[attr] = Missing THEN default ELSE item[attr]

NameContainsDesiredKeywords(lower_product_name, required) ==
  \A i \in DOMAIN required : StrIn(required[i], lower_product_name)

NameContainsUnwantedTerms(lower_product_name, unwanted) ==
  \E term \in unwanted : StrIn(term, lower_product_name)

MinCheckPassed(price, lo) == lo = None \/ price >= lo.v

\* Mutant: the upper bound is exclusive.
MaxCheckStrict(price, hi) == hi = None \/ price < hi.v

MaxCheckPassed(price, hi) == hi = None \/ price <= hi.v

\* Mutant: one of the two checks is enough.
PriceChecksEither(price, lo, hi) ==
  MinCheckPassed(price, lo) \/ MaxCheckPassed(price, hi)

PriceChecksPassed(price, lo, hi) ==
  MinCheckPassed(price, lo) /\ MaxCheckPassed(price, hi)

\* Mutant: the loop breaks one item late.
LimitReachedLate(items, lim) == Len(items) > lim

LimitReached(items, lim) == Len(items) >= lim

\* Mutant: the entry goes to the front of the list.
PrependItem(items, entry) == <<entry>> \o items

AppendItem(items, entry) == Append(items, entry)

Skip(why) == [kind |-> "skip", why |-> why]

\* One pass of the loop body on `item`: what it does with the item.
ProcessItem(item, required, unwanted, lo, hi) ==
  LET product_name == Getattr(item, "productName", None)
      price == Getattr(item, "price", None)
  IN IF product_name = None THEN Skip("missing name")
     ELSE IF price = None THEN Skip("missing price")
     ELSE IF ~Float(price).ok THEN Skip(Float(price).err)
     ELSE IF product_name.t # "str" THEN Skip("AttributeError")
     ELSE IF ~NameContainsDesiredKeywords(Lower(product_name.s), required)
       THEN Skip("name lacks a required term")
     ELSE IF NameContainsUnwantedTerms(Lower(product_name.s), unwanted)
       THEN Skip("name has an unwanted term")
     ELSE IF ~PriceChecksPassed(Float(price).v, lo, hi)
       THEN Skip("price out of range")
     ELSE [kind |-> "append",
           entry |-> [name |-> product_name,
                      url |-> Getattr(item, "productURL", PyStr(<<"N", "/", "A">>)),
                      price |-> Float(price).v]]

(***************************************************************************)
(* The requests and the upstream answers the model explores.               *)
(***************************************************************************)
Keywords ==
  { <<"P", "r", "o", " ", " ", "M", "a", "x">>,    \* "Pro  Max"
    <<"P", "r", "o", "M", "a", "x">> }             \* "ProMax"

ExcludeKeywords ==
  { <<>>,                                          \* ""
    <<"C", "a", "s", "e", " ", "P", "R", "O">> }   \* "Case PRO"

MinPrices == {None, PyInt(3)}
MaxPrices == {None, PyInt(2)}

Item(name, price, url) ==
  [productName |-> name, price |-> price, productURL |-> url]

Url == PyStr(<<"u">>)
ProMax == PyStr(<<"P", "r", "o", " ", "M", "a", "x">>)      \* "Pro Max"

Catalogue ==
  { Item(ProMax, PyInt(2), Url),
    Item(PyStr(<<"M", "A", "X", " ", "p", "r", "o", " ", "c", "a", "s", "e">>),
         PyStr(<<"3">>), Missing),                          \* "MAX pro case"
    Item(PyStr(<<"P", "r", "o", "M", "a", "x", " ", "A", "1", "4">>),
         PyInt(1), Url),                                    \* "ProMax A14"
    Item(Missing, PyInt(2), Url),
    Item(ProMax, None, Url),
    Item(ProMax, PyStr(<<"x">>), Url) }

SeqsUpTo(S, n) == UNION {[1..k -> S] : k \in 0..n}

Exceptions == {"HTTPError", "Timeout"}

(***************************************************************************)
(* State of one invocation of search_mercari_items_filtered.               *)
(***************************************************************************)
VARIABLES
  pc,                 \* "start", "loop", "returned" (a list) or "raised"
  keyword, exclude_keywords, min_price, max_price, limit,   \* the arguments
  search_calls,       \* the calls made to mercari.search, in order
  search_results,     \* what mercari.search returned
  required_terms, all_unwanted_terms,
  pos,                \* how many items the for loop has taken so far
  items_found,
  taken,              \* for each entry of items_found, its index in search_results
  raised              \* the exception the invocation ended with, or None

(***************************************************************************)
(* State of one run of check_server.                                       *)
(***************************************************************************)
VARIABLES
  cpc,                \* "Disconnected", "Connected", "ToolFound" or "Exited"
  listing,            \* "pending", "listed" or the error list_tools raised
  tool_names,         \* the names list_tools returned
  tool_found, tool_call_successful, final_status,
  call_tool_calls,    \* the calls made to client.call_tool, in order
  printed             \* the lines printed so far

svars == <<pc, keyword, exclude_keywords, min_price, max_price, limit,
           search_calls, search_results, required_terms, all_unwanted_terms,
           pos, items_found, taken, raised>>

cvars == <<cpc, listing, tool_names, tool_found, tool_call_successful,
           final_status, call_tool_calls, printed>>

vars == <<svars, cvars>>

args == <<keyword, exclude_keywords, min_price, max_price, limit>>

\* check_server is not running.
CheckerIdle ==
  /\ cpc = "NotRun"
  /\ listing = "pending"
  /\ tool_names = <<>>
  /\ tool_found = FALSE
  /\ tool_call_successful = FALSE
  /\ final_status = "FAILURE"
  /\ call_tool_calls = <<>>
  /\ printed = <<>>

Init ==
  /\ CheckerIdle
  /\ pc = "start"
  /\ keyword \in Keywords
  /\ exclude_keywords \in ExcludeKeywords
  /\ min_price \in MinPrices
  /\ max_price \in MaxPrices
  /\ limit \in 1..MaxLimit
  /\ search_calls = <<>>
  /\ search_results = <<>>
  /\ required_terms = <<>>
  /\ all_unwanted_terms = {}
  /\ pos = 0
  /\ items_found = <<>>
  /\ taken = <<>>
  /\ raised = None

\* A call of mercari.search: its arguments, and what it raised (or None).
SearchCall(outcome) ==
  [keyword |-> keyword, sort |-> "SORT_SCORE", order |-> "ORDER_DESC",
   status |-> "ON_SALE", exclude_keywords |-> exclude_keywords,
   raised |-> outcome]

\* Mutant: the failure is swallowed and an empty list returned.
OnSearchErrorReturnEmpty(e) == [pc |-> "returned", raised |-> None]

\* What the invocation does with an exception of the upstream search.
OnSearchError(e) == [pc |-> "raised", raised |-> PyStr(e)]

\* mercari.search returns; the filtering setup runs.
SearchReturns ==
  /\ pc = "start"
  /\ search_calls' = Append(search_calls, SearchCall(None))
  /\ search_results' \in SeqsUpTo(Catalogue, MaxItems)
  /\ required_terms' = RequiredTerms(keyword)
  /\ all_unwanted_terms' = AllUnwantedTerms(keyword, exclude_keywords)
  /\ items_found' = <<>>
  /\ pc' = "loop"
  /\ UNCHANGED <<cvars, args, pos, taken, raised>>

\* mercari.search raises; the handler at the end of the function runs.
SearchRaises ==
  /\ pc = "start"
  /\ \E e \in Exceptions :
       /\ search_calls' = Append(search_calls, SearchCall(PyStr(e)))
       /\ pc' = OnSearchError(e).pc
       /\ raised' = OnSearchError(e).raised
  /\ UNCHANGED <<cvars, args, search_results, required_terms, all_unwanted_terms,
                 pos, items_found, taken>>

\* One iteration of the loop: the item is skipped, or appended to
\* items_found; at the limit the loop breaks and the function returns.
LoopIteration ==
  /\ pc = "loop"
  /\ pos < Len(search_results)
  /\ pos' = pos + 1
  /\ LET r == ProcessItem(search_results[pos + 1], required_terms,
                          all_unwanted_terms, min_price, max_price)
     IN IF r.kind = "skip"
          THEN UNCHANGED <<pc, items_found, taken>>
          ELSE /\ items_found' = AppendItem(items_found, r.entry)
               /\ taken' = AppendItem(taken, pos + 1)
               /\ pc' = IF LimitReached(items_found', limit)
                          THEN "returned" ELSE "loop"
  /\ UNCHANGED <<cvars, args, search_calls, search_results, required_terms,
                 all_unwanted_terms, raised>>

\* The loop runs out of items and the function returns items_found.
ReturnItems ==
  /\ pc = "loop"
  /\ pos = Len(search_results)
  /\ pc' = "returned"
  /\ UNCHANGED <<cvars, args, search_calls, search_results, required_terms,
                 all_unwanted_terms, pos, items_found, taken, raised>>

Next == SearchReturns \/ SearchRaises \/ LoopIteration \/ ReturnItems

Spec == Init /\ [][Next]_vars

(***************************************************************************)
(* check_server.py                                                         *)
(***************************************************************************)
TOOL_TO_CALL == "search_mercari_jp"

MaxTools == 2          \* longest tool list the server advertises
MaxResultItems == 11   \* longest item list a tool call returns
PrintLimit == 10       \* items_list[:10]

ToolNames == {TOOL_TO_CALL, "search_mercari", "ping"}

Line(text, n) == [text |-> text, n |-> n]
FailureHeader == Line("--- Server Check Result: FAILURE ---", 0)
SuccessHeader == Line("--- Server Check Result: SUCCESS ---", 0)

\* Mutant: any advertised tool will do.
ToolPresentAny(names) == names # <<>>

\* `TOOL_TO_CALL in tool_names`
ToolPresent(names) == TOOL_TO_CALL \in Range(names)

\* An item of the decoded list: a dict with or without the key 'name'.
GoodItem == [name |-> TRUE]
BadItem == [name |-> FALSE]

ItemLists ==
  { [i \in 1..n |-> IF i = b THEN BadItem ELSE GoodItem] :
      n \in 0..MaxResultItems, b \in 0..MaxResultItems }

\* What client.call_tool hands back: a list of content blocks.
Contents ==
  { <<>>, << [type |-> "image"] >>, << [type |-> "text", json |-> "invalid"] >> }
  \cup { << [type |-> "text", json |-> "list", items |-> l] >> : l \in ItemLists }

\* json.loads(results[0].text)
JsonLoads(block) ==
  IF block.type # "text" THEN [ok |-> FALSE, err |-> "AttributeError"]
  ELSE IF block.json = "invalid" THEN [ok |-> FALSE, err |-> "JSONDecodeError"]
  ELSE [ok |-> TRUE, v |-> block.items]

Min(a, b) == IF a <= b THEN a ELSE b

\* The printing of a non-empty items_list: the lines printed, and whether
\* item['name'] raised KeyError on the way.
PrintItems(items_list) ==
  LET shown == SubSeq(items_list, 1, Min(Len(items_list), PrintLimit))
      bad == {i \in DOMAIN shown : ~shown[i].name}
      stop == IF bad = {} THEN Len(shown) + 1
              ELSE CHOOSE i \in bad : \A j \in bad : i <= j
      head == <<Line("--- Mercari Search Results (First 10) ---", 0)>>
      rows == [i \in 1..(stop - 1) |-> Line("- item", i)]
  IN IF bad # {}
       THEN [lines |-> head \o rows, raised |-> TRUE]
       ELSE [lines |-> head \o rows \o
                       (IF Len(items_list) > PrintLimit
                          THEN <<Line("... and N more.", Len(items_list) - PrintLimit)>>
                          ELSE <<>>),
             raised |-> FALSE]

\* Lines 79-97: the processing of the value call_tool returned.
ProcessResults(results) ==
  IF results = <<>>
    THEN [lines |-> <<Line("--- Mercari Search Results ---", 0),
                      Line("Tool executed but returned no results.", 0)>>,
          raised |-> FALSE]
  ELSE IF ~JsonLoads(results[1]).ok
    THEN [lines |-> <<>>, raised |-> TRUE]
  ELSE IF JsonLoads(results[1]).v = <<>>
    THEN [lines |-> <<Line("--- Mercari Search Results ---", 0),
                      Line("No items found matching the criteria.", 0)>>,
          raised |-> FALSE]
  ELSE PrintItems(JsonLoads(results[1]).v)

\* Lines 111-117: the final status.
FinalStatus(found, successful) ==
  IF found /\ successful
    THEN [status |-> "SUCCESS",
          lines |-> <<SuccessHeader, Line("The server is running", 0)>>]
    ELSE [status |-> "FAILURE", lines |-> <<>>]

ServerIdle ==
  /\ pc = "idle"
  /\ keyword = <<>>
  /\ exclude_keywords = <<>>
  /\ min_price = None
  /\ max_price = None
  /\ limit = 1
  /\ search_calls = <<>>
  /\ search_results = <<>>
  /\ required_terms = <<>>
  /\ all_unwanted_terms = {}
  /\ pos = 0
  /\ items_found = <<>>
  /\ taken = <<>>
  /\ raised = None

CheckerInit ==
  /\ ServerIdle
  /\ cpc = "Disconnected"
  /\ listing = "pending"
  /\ tool_names = <<>>
  /\ tool_found = FALSE
  /\ tool_call_successful = FALSE
  /\ final_status = "FAILURE"
  /\ call_tool_calls = <<>>
  /\ printed = <<>>

\* `async with Client(SERVER_FILE)` connects.
Connect ==
  /\ cpc = "Disconnected"
  /\ cpc' = "Connected"
  /\ UNCHANGED <<svars, listing, tool_names, tool_found, tool_call_successful,
                 final_status, call_tool_calls, printed>>

\* The connection fails; one of the handlers of lines 121-132 runs.
ConnectFails ==
  /\ cpc = "Disconnected"
  /\ \E e \in {"ConnectionRefusedError", "FileNotFoundError", "Exception"} :
       printed' = printed \o <<FailureHeader, Line(e, 0)>>
  /\ cpc' = "Exited"
  /\ UNCHANGED <<svars, listing, tool_names, tool_found, tool_call_successful,
                 final_status, call_tool_calls>>

\* client.list_tools() returns; the tool is looked up in the names.
ListTools ==
  /\ cpc = "Connected"
  /\ listing' = "listed"
  /\ tool_names' \in SeqsUpTo(ToolNames, MaxTools)
  /\ IF ToolPresent(tool_names')
       THEN /\ tool_found' = TRUE
            /\ cpc' = "ToolFound"
            /\ printed' = printed
       ELSE /\ tool_found' = tool_found
            /\ cpc' = "Exited"
            /\ printed' = printed \o
                 <<FailureHeader, Line("expected tool was not found", 0),
                   Line("Available tools", Len(tool_names'))>>
  /\ UNCHANGED <<svars, tool_call_successful, final_status, call_tool_calls>>

\* client.list_tools() raises.
ListToolsFails ==
  /\ cpc = "Connected"
  /\ \E e \in {"ClientError", "Exception"} :
       /\ listing' = e
       /\ printed' = printed \o <<FailureHeader, Line(e, 0)>>
  /\ cpc' = "Exited"
  /\ UNCHANGED <<svars, tool_names, tool_found, tool_call_successful,
                 final_status, call_tool_calls>>

CallToolArgs == [name |-> TOOL_TO_CALL, arguments |-> "SEARCH_PARAMS"]

\* client.call_tool() returns; the results are processed and the final
\* status is printed.
CallTool ==
  /\ cpc = "ToolFound"
  /\ tool_found
  /\ call_tool_calls' = Append(call_tool_calls, CallToolArgs)
  /\ tool_call_successful' = TRUE
  /\ \E results \in Contents :
       LET r == ProcessResults(results)
           f == FinalStatus(tool_found, tool_call_successful')
       IN /\ printed' = printed \o r.lines
                          \o (IF r.raised
                                THEN <<FailureHeader, Line("Exception", 0)>>
                                ELSE <<>>)
                          \o f.lines
          /\ final_status' = f.status
  /\ cpc' = "Exited"
  /\ UNCHANGED <<svars, listing, tool_names, tool_found>>

\* client.call_tool() raises.
CallToolFails ==
  /\ cpc = "ToolFound"
  /\ tool_found
  /\ call_tool_calls' = Append(call_tool_calls, CallToolArgs)
  /\ \E e \in {"ClientError", "Exception"} :
       LET f == FinalStatus(tool_found, tool_call_successful)
       IN /\ printed' = printed \o <<FailureHeader, Line(e, 0)>> \o f.lines
          /\ final_status' = f.status
  /\ cpc' = "Exited"
  /\ UNCHANGED <<svars, listing, tool_names, tool_found, tool_call_successful>>

CheckerNext ==
  Connect \/ ConnectFails \/ ListTools \/ ListToolsFails \/ CallTool
    \/ CallToolFails

SpecChecker == CheckerInit /\ [][CheckerNext]_vars

(***************************************************************************)
(* The vocabulary of the properties, written from the request's arguments  *)
(* and from the list the upstream search returned.                         *)
(***************************************************************************)
IsSubstring(t, text) ==
  \E a \in 0..(Len(text) - Len(t)) : SubSeq(text, a + 1, a + Len(t)) = t

Tokens(text) == Range(LowerAll(Split(text)))

Required == Tokens(keyword)
RawUnwanted == Range(base_unwanted_terms) \cup Tokens(exclude_keywords)
Unwanted == RawUnwanted \ Required

Absent(x) == x = Missing \/ x = None

IsNumeric(p) ==
  \/ p.t = "int"
  \/ p.t = "str" /\ p.s # <<>> /\ \A i \in DOMAIN p.s : p.s[i] \in Range(Digits)

NumberOf(p) == IF p.t = "int" THEN p.v ELSE ParseDigits(p.s, 0)

\* The item has a product name and a numeric price.
WellFormed(item) == item.productName.t = "str" /\ IsNumeric(item.price)

\* The item's name or price is absent, or its price is no number.
Malformed(item) ==
  Absent(item.productName) \/ Absent(item.price) \/ ~IsNumeric(item.price)

HasAll(item, terms) ==
  LET name == Lower(item.productName.s)
  IN \A r \in terms : IsSubstring(r, name)

HasAny(item, terms) ==
  LET name == Lower(item.productName.s)
  IN \E u \in terms : IsSubstring(u, name)

HasAllRequired(item) == HasAll(item, Required)

HasUnwanted(item) == HasAny(item, Unwanted)

InPriceRange(item) ==
  /\ min_price # None => NumberOf(item.price) >= min_price.v
  /\ max_price # None => NumberOf(item.price) <= max_price.v

\* The item passes every filter of the request.
Passes(item) ==
  WellFormed(item) /\ HasAllRequired(item) /\ ~HasUnwanted(item)
    /\ InPriceRange(item)

Candidates == DOMAIN search_results
PassingOf(req, unw) ==
  {j \in Candidates :
     /\ WellFormed(search_results[j])
     /\ HasAll(search_results[j], req)
     /\ ~HasAny(search_results[j], unw)
     /\ InPriceRange(search_results[j])}
Passing == PassingOf(Required, Unwanted)
Before(P, i) == {j \in P : j < i}
Returned == Range(taken)


(***************************************************************************)
(* C1 as stated: when the call has returned, a candidate with a name and a *)
(* numeric price is in the returned list if and only if it has every       *)
(* required term, no unwanted term and a price within the inclusive        *)
(* bounds.                                                                 *)
(***************************************************************************)
C1_IncludedIffPasses ==
  pc = "returned" =>
    LET P == Passing
    IN \A i \in Candidates :
         WellFormed(search_results[i]) => (i \in Returned <=> i \in P)

(***************************************************************************)
(* C1 amended: when the call has returned, a candidate with a name and a   *)
(* numeric price is in the returned list if and only if it passes every    *)
(* filter and fewer than `limit` passing candidates precede it.            *)
(***************************************************************************)
C1_IncludedIffPassesWithinLimit ==
  pc = "returned" =>
    LET P == Passing
    IN \A i \in Candidates :
         WellFormed(search_results[i]) =>
           (i \in Returned <=> i \in P /\ Cardinality(Before(P, i)) < limit)

\* A returned call with a well-formed candidate at a price bound that is in
\* the list, one that fails a filter, and one that passes but came after
\* the limit.
C1_Witness ==
  /\ pc = "returned"
  /\ \E i \in Candidates :
       /\ i \in Returned
       /\ max_price # None
       /\ NumberOf(search_results[i].price) = max_price.v
  /\ \E i \in Candidates :
       WellFormed(search_results[i]) /\ ~Passes(search_results[i])
  /\ \E i \in Candidates : Passes(search_results[i]) /\ i \notin Returned

(***************************************************************************)
(* C2: in every state of an invocation, after every iteration of the loop  *)
(* as well as at the return, items_found holds at most `limit` entries.    *)
(***************************************************************************)
C2_LengthWithinLimit ==
  pc \in {"start", "loop", "returned", "raised"} => Len(items_found) <= limit

\* The loop stopped at the limit with a passing candidate still ahead.
C2_Witness ==
  /\ pc = "returned"
  /\ Len(items_found) = limit
  /\ limit > 1
  /\ pos < Len(search_results)
  /\ Passes(search_results[pos + 1])

(***************************************************************************)
(* C3: a candidate whose name or price is absent, or whose price is no     *)
(* number, is never in the list; the call fails only when the search       *)
(* itself raised, before any item was looked at; the loop ends only at the *)
(* end of the candidates or at the limit; and the passing candidates after *)
(* a malformed one are returned as far as the limit allows.                *)
(***************************************************************************)
C3_MalformedSkipped ==
  /\ \A i \in Returned : ~Malformed(search_results[i])
  /\ pc = "raised" => pos = 0 /\ search_results = <<>>
  /\ pc = "returned" =>
       /\ pos = Len(search_results) \/ Len(items_found) >= limit
       /\ LET P == Passing
          IN \A i \in Candidates :
               Malformed(search_results[i]) =>
                 \A j \in P :
                   (j > i /\ Cardinality(Before(P, j)) < limit) => j \in Returned

\* A returned call whose candidates hold one with an absent name or price
\* and one with an unparsable price, followed by a candidate that is in the
\* list.
C3_Witness ==
  /\ pc = "returned"
  /\ \E i, k \in Candidates :
       /\ Absent(search_results[i].productName) \/ Absent(search_results[i].price)
       /\ search_results[k].productName.t = "str"
       /\ ~Absent(search_results[k].price)
       /\ ~IsNumeric(search_results[k].price)
       /\ \E j \in Returned : j > i /\ j > k

(***************************************************************************)
(* C4 as stated: no required term is left in the unwanted set, and a       *)
(* candidate that contains a term both required and unwanted, every other  *)
(* required term, no remaining unwanted term and has its price in range is *)
(* in the returned list.                                                   *)
(***************************************************************************)
C4_RequiredOverridesUnwanted ==
  /\ pc \in {"loop", "returned"} =>
       all_unwanted_terms \cap Range(required_terms) = {}
  /\ (pc = "returned" /\ Required \cap RawUnwanted # {}) =>
       LET req == Required
           rest == Unwanted
       IN \A i \in Candidates :
            (/\ WellFormed(search_results[i])
             /\ HasAll(search_results[i], req)
             /\ ~HasAny(search_results[i], rest)
             /\ InPriceRange(search_results[i])) => i \in Returned

(***************************************************************************)
(* C4 amended: no required term is left in the unwanted set, and a         *)
(* candidate that contains a term both required and unwanted, every other  *)
(* required term, no remaining unwanted term and has its price in range is *)
(* in the returned list, provided fewer than `limit` passing candidates    *)
(* precede it.                                                             *)
(***************************************************************************)
C4_RequiredOverridesUnwantedWithinLimit ==
  /\ pc \in {"loop", "returned"} =>
       all_unwanted_terms \cap Range(required_terms) = {}
  /\ (pc = "returned" /\ Required \cap RawUnwanted # {}) =>
       LET req == Required
           rest == Unwanted
           P == Passing
       IN \A i \in Candidates :
            (/\ WellFormed(search_results[i])
             /\ HasAll(search_results[i], req)
             /\ ~HasAny(search_results[i], rest)
             /\ InPriceRange(search_results[i])
             /\ Cardinality(Before(P, i)) < limit) => i \in Returned

\* A returned candidate that contains a term of the base exclusion set which
\* the keyword requires, and one that contains a term of exclude_keywords
\* which the keyword requires.
C4_Witness ==
  /\ pc = "returned"
  /\ \E i \in Returned :
       \E t \in Required \cap RawUnwanted :
         IsSubstring(t, Lower(search_results[i].productName.s))
  /\ \/ Required \cap Range(base_unwanted_terms) # {}
     \/ Required \cap Tokens(exclude_keywords) # {}


C8_InconsistentBoundsGiveEmpty ==
  (min_price # None /\ max_price # None /\ min_price.v > max_price.v) =>
    /\ items_found = <<>>
    /\ pc = "raised" => search_calls[1].raised # None
    /\ pc = "returned" => search_calls[1].raised = None

\* A call with min_price above max_price that returned the empty list though
\* a candidate passed the name filters.
C8_Witness ==
  /\ pc = "returned"
  /\ min_price # None /\ max_price # None /\ min_price.v > max_price.v
  /\ items_found = <<>>
  /\ \E i \in Candidates :
       /\ WellFormed(search_results[i])
       /\ HasAllRequired(search_results[i])
       /\ ~HasUnwanted(search_results[i])

(***************************************************************************)
(* C9: the returned list is the first min(limit, k) of the k passing       *)
(* candidates, in the upstream order, each projected to its name, URL and  *)
(* numeric price; the scan stops at the limit-th accepted candidate, and   *)
(* otherwise at the end of the candidates.                                 *)
(***************************************************************************)
C9_FirstPassingInOrder ==
  pc = "returned" =>
    LET P == Passing
        n == IF Cardinality(P) < limit THEN Cardinality(P) ELSE limit
    IN /\ Len(taken) = n
       /\ Len(items_found) = n
       /\ \A k \in 1..n :
            /\ taken[k] \in P
            /\ Cardinality(Before(P, taken[k])) = k - 1
            /\ items_found[k].name = search_results[taken[k]].productName
            /\ items_found[k].price = NumberOf(search_results[taken[k]].price)
            /\ items_found[k].url =
                 IF search_results[taken[k]].productURL = Missing
                   THEN PyStr(<<"N", "/", "A">>)
                   ELSE search_results[taken[k]].productURL
       /\ pos = IF Cardinality(P) >= limit
                  THEN taken[n] ELSE Len(search_results)

\* A returned list of two different entries, and a passing candidate the scan
\* never reached.
C9_Witness ==
  /\ pc = "returned"
  /\ Len(taken) = 2
  /\ items_found[1] # items_found[2]
  /\ pos < Len(search_results)
  /\ Passes(search_results[Len(search_results)])

(***************************************************************************)
(* C10: when an unwanted term (of the base set or of exclude_keywords) is  *)
(* a substring of a required term and equal to no required term, no item   *)
(* is ever collected, so the returned list is empty.                       *)
(***************************************************************************)
UnwantedInsideRequired ==
  LET req == Required
  IN \E u \in RawUnwanted \ req : \E r \in req : IsSubstring(u, r)

C10_UnwantedInsideRequiredGivesEmpty ==
  items_found = <<>> \/ ~UnwantedInsideRequired

\* A keyword that contains a base exclusion term, no exclusion text, and a
\* returned empty list though a candidate has every required term and a
\* price in range.
C10_Witness ==
  /\ pc = "returned"
  /\ exclude_keywords = <<>>
  /\ UnwantedInsideRequired
  /\ items_found = <<>>
  /\ \E i \in Candidates :
       /\ WellFormed(search_results[i])
       /\ HasAllRequired(search_results[i])
       /\ InPriceRange(search_results[i])

(***************************************************************************)
(* Vocabulary of the checker's properties.                                 *)
(***************************************************************************)
PrintedFailure == FailureHeader \in Range(printed)
PrintedSuccess == SuccessHeader \in Range(printed)
ListedWithTool == listing = "listed" /\ TOOL_TO_CALL \in Range(tool_names)

(***************************************************************************)
(* C6: once listing tools has failed, or has returned names without        *)
(* search_mercari_jp, the run has ended having reported FAILURE and made   *)
(* no tool call; and a tool call is made only after a listing that         *)
(* returned the tool's name.                                               *)
(***************************************************************************)
C6_NoCallWithoutTool ==
  /\ (listing # "pending" /\ ~ListedWithTool) =>
       /\ call_tool_calls = <<>>
       /\ cpc = "Exited"
       /\ PrintedFailure
       /\ ~PrintedSuccess
  /\ call_tool_calls # <<>> => ListedWithTool

\* A run that listed other tools only, reported FAILURE and called nothing.
C6_Witness ==
  /\ cpc = "Exited"
  /\ listing = "listed"
  /\ tool_names # <<>>
  /\ TOOL_TO_CALL \notin Range(tool_names)
  /\ PrintedFailure
  /\ call_tool_calls = <<>>

(***************************************************************************)
(* C7: no run prints both a FAILURE and a SUCCESS result; SUCCESS is       *)
(* printed only after the tool was found and called; and a run that has    *)
(* ended printed one of the two.                                           *)
(***************************************************************************)
C7_FailureExcludesSuccess ==
  /\ ~(PrintedFailure /\ PrintedSuccess)
  /\ PrintedSuccess => ListedWithTool /\ call_tool_calls # <<>>
  /\ cpc = "Exited" => PrintedFailure \/ PrintedSuccess

=============================================================================
